---- MODULE Spec2Model ----
(***************************************************************************)
(* A model of initialize/prepare_mesh.py: the batch pipeline              *)
(*   merge_parameter_files -> get_unique_objects -> process_meshes loop   *)
(*   -> objects.txt                                                        *)
(* Strings are sequences of one-character strings, so that split() and    *)
(* the substring test "x in s" are computed as Python computes them.      *)
(* Inertia values are integers in units of 1e-6.                           *)
(***************************************************************************)
EXTENDS Integers, Sequences, FiniteSets, TLC

VARIABLES object_dir, param_dir, pc, error, names, coeffs, unique_idx,
          morph_names, i, processed, good_mesh_cnt, exported, objects_txt,
          reported, run, first_table

vars == <<object_dir, param_dir, pc, error, names, coeffs, unique_idx,
          morph_names, i, processed, good_mesh_cnt, exported, objects_txt,
          reported, run, first_table>>

(***************************************************************************)
(* Bounds of the model                                                     *)
(***************************************************************************)
\* at most this many objects have a file in either input directory
MaxObjects == 2
\* the last transform coefficient of a parameter file is drawn from 0..MaxCoeff
MaxCoeff == 1

(***************************************************************************)
(* Program constants                                                       *)
(***************************************************************************)
GLOBAL_MASS == 1
GLOBAL_DENSITY == 1000
GLOBAL_MESH_EXTENSION == <<".", "o", "b", "j">>
POSTFIX == <<"-", "p", "a", "r", "a", "m", "s", ".", "c", "s", "v">>
STL_EXTENSION == <<".", "s", "t", "l">>
n_var == 24
\* np.clip(inertia, -1e-1, 1e-1), in units of 1e-6
CLIP_MAX == 100000
CLIP_MIN == 0 - CLIP_MAX

(***************************************************************************)
(* Python string operations                                                *)
(***************************************************************************)
\* sub occurs in s at position p
OccursAt(sub, s, p) ==
    /\ p + Len(sub) - 1 <= Len(s)
    /\ SubSeq(s, p, p + Len(sub) - 1) = sub

\* Python's "sub in s" on strings
StrIn(sub, s) ==
    \/ Len(sub) = 0
    \/ \E p \in 1..Len(s) : OccursAt(sub, s, p)

\* Python's s.split(sep)[0]: the text before the first occurrence of sep
SplitHead(s, sep) ==
    IF StrIn(sep, s)
    THEN LET p == CHOOSE q \in 1..Len(s) :
                     /\ OccursAt(sep, s, q)
                     /\ \A r \in 1..(q - 1) : ~OccursAt(sep, s, r)
         IN  SubSeq(s, 1, p - 1)
    ELSE s

\* every enumeration order of a finite set (os.listdir, list(set(...)))
Orders(S) ==
    {f \in [1..Cardinality(S) -> S] : \A a, b \in 1..Cardinality(S) : f[a] = f[b] => a = b}

(***************************************************************************)
(* Inputs: the two input directories                                       *)
(***************************************************************************)
ObjectNames == { <<"a", "-", "1">>, <<"a", "-", "2">>, <<"b", "a", "-", "1">> }

\* what mesh.mass_properties() returns for a mesh: density, center of mass
\* and 3x3 inertia (units of 1e-6)
MassSamples ==
    << [density |-> 1, center_mass |-> <<0, 0, 0>>,
        inertia |-> << <<50, 0, -100>>, <<0, 100, 20>>, <<-100, 20, 99>> >>],
       [density |-> 2, center_mass |-> <<1, -2, 3>>,
        inertia |-> << <<400, -2, 0>>, <<-2, 200, -600>>, <<0, -600, 100>> >>] >>

\* a geometry file <name>.obj: absent, unloadable, or a mesh; watertight is
\* mesh.is_watertight as loaded, repairable is mesh.is_watertight after
\* mesh.process() (a watertight mesh is not repaired, and the mass properties
\* of a mesh that stays open are never read)
NoGeometry == [kind |-> "absent", watertight |-> FALSE, repairable |-> FALSE, sample |-> 1]
CorruptGeometry == [kind |-> "corrupt", watertight |-> FALSE, repairable |-> FALSE, sample |-> 1]
Meshes ==
    { m \in [kind : {"mesh"}, watertight : BOOLEAN, repairable : BOOLEAN,
              sample : 1..Len(MassSamples)] :
        /\ m.watertight => m.repairable
        /\ ~m.repairable => m.sample = 1 }
GeometryFiles == {NoGeometry, CorruptGeometry} \cup Meshes

\* the flat list of values of a parameter file: fields 1..5 are the transform
\* coefficients, the rest the other mesh properties
Fields(c, nf) ==
    [j \in 1..nf |-> IF j < 5 THEN j ELSE IF j = 5 THEN c ELSE 100 + j]

\* a parameter file <name>-params.csv: absent, one pandas cannot read or
\* parse, or a flat list of fields
NoParams == [kind |-> "absent", fields |-> <<>>]
UnreadableParams == [kind |-> "unreadable", fields |-> <<>>]
ParamFiles ==
    {NoParams, UnreadableParams}
    \cup { [kind |-> "csv", fields |-> Fields(c, n_var)] : c \in 0..MaxCoeff }
    \cup { [kind |-> "csv", fields |-> Fields(0, n_var - 1)] }

HasFile(od, pd, n) == od[n].kind # "absent" \/ pd[n].kind # "absent"

\* os.listdir of the two input directories
ListObjectDir == { n \o GLOBAL_MESH_EXTENSION : n \in {m \in ObjectNames : object_dir[m].kind # "absent"} }
ListParamDir == { n \o POSTFIX : n \in {m \in ObjectNames : param_dir[m].kind # "absent"} }

\* the object a path of an input directory belongs to
ObjectOfPath(path, ext) == CHOOSE n \in ObjectNames : n \o ext = path

(***************************************************************************)
(* merge_parameter_files                                                   *)
(***************************************************************************)
\* lines 77-78: the object files, by the text before their first '.'
ObjectFiles == { SplitHead(f, <<".">>) : f \in ListObjectDir }

\* a variant that omits the intersection with the object files
MorphFilesOfParamsOnly ==
    { SplitHead(f, POSTFIX) : f \in {g \in ListParamDir : StrIn(POSTFIX, g)} }

\* lines 80-82: objects with both a parameter file and an object file
MorphFiles ==
    { SplitHead(f, POSTFIX) : f \in {g \in ListParamDir : StrIn(POSTFIX, g)} }
    \cap ObjectFiles

\* line 92: pd.read_csv raises on a file it cannot open or parse
ReadCsvRaises(fp) == param_dir[ObjectOfPath(fp, POSTFIX)].kind # "csv"
ReadCsv(fp) == param_dir[ObjectOfPath(fp, POSTFIX)].fields

\* line 95: only a file of exactly n_var values is kept
HasAllFields(morph_params) == Len(morph_params) = n_var

\* np.hstack of a string and numbers yields strings: a number becomes its text
NumStr(v) == <<"str", v>>

\* line 98: the file's name followed by its values
HStack(name, morph_params) ==
    <<name>> \o [j \in 1..Len(morph_params) |-> NumStr(morph_params[j])]

\* line 87: np.zeros((len(morph_files), n_var + 1))
ZeroRows(n, width) == [k \in 1..n |-> [j \in 1..width |-> 0]]

\* a variant that stores the row but does not advance file_count
StoreRowNoAdvance(morph_data, file_count, row) ==
    [data |-> [morph_data EXCEPT ![file_count + 1] = row], count |-> file_count]

\* lines 99-100: the row is stored at file_count, which then advances
StoreRow(morph_data, file_count, row) ==
    [data |-> [morph_data EXCEPT ![file_count + 1] = row], count |-> file_count + 1]

\* lines 88-100: the loop over morph_files[k..], from the state (morph_data, file_count)
RECURSIVE MergeLoop(_, _, _, _)
MergeLoop(morph_files, k, morph_data, file_count) ==
    IF k > Len(morph_files)
    THEN [raised |-> FALSE, data |-> morph_data, count |-> file_count]
    ELSE LET fp == morph_files[k] \o POSTFIX
         IN  IF ReadCsvRaises(fp)
             THEN [raised |-> TRUE, data |-> morph_data, count |-> file_count]
             ELSE IF HasAllFields(ReadCsv(fp))
                  THEN LET row == HStack(SplitHead(morph_files[k], POSTFIX), ReadCsv(fp))
                           st == StoreRow(morph_data, file_count, row)
                       IN  MergeLoop(morph_files, k + 1, st.data, st.count)
                  ELSE MergeLoop(morph_files, k + 1, morph_data, file_count)

\* lines 104-105: names = morph_data[:file_count, 0], coeffs = morph_data[:file_count, 1:6]
MergedNames(morph_data, file_count) == [k \in 1..file_count |-> morph_data[k][1]]
MergedCoeffs(morph_data, file_count) == [k \in 1..file_count |-> SubSeq(morph_data[k], 2, 6)]

\* merge_parameter_files, with morph_files enumerated in the given order
MergeParameterFilesIn(morph_files) ==
    LET r == MergeLoop(morph_files, 1, ZeroRows(Len(morph_files), n_var + 1), 0)
    IN  [raised |-> r.raised,
         names |-> IF r.raised THEN <<>> ELSE MergedNames(r.data, r.count),
         coeffs |-> IF r.raised THEN <<>> ELSE MergedCoeffs(r.data, r.count)]

(***************************************************************************)
(* get_unique_objects; indices are positions 1..n of names                 *)
(***************************************************************************)
\* line 33: the class of a name is the text before its first '-'
ClassOf(name) == SplitHead(name, <<"-">>)
Classes(nms) == { ClassOf(nms[k]) : k \in 1..Len(nms) }

\* xrange(n) as the positions 1..n, in increasing order
Range(n) == [k \in 1..n |-> k]

\* line 41: a name belongs to the group of every class that occurs in it
InClass(unique, name) == StrIn(unique, name)
ClassIndices(unique, nms) ==
    SelectSeq(Range(Len(nms)), LAMBDA idx : InClass(unique, nms[idx]))

\* line 44: DataFrame.drop_duplicates keeps the first of equal rows; its
\* index holds the positions of the rows kept
DropDuplicates(rows) ==
    SelectSeq(Range(Len(rows)), LAMBDA p : \A q \in 1..(p - 1) : rows[q] # rows[p])

\* lines 44-47: the indices into names kept for one class
UniqueOfClass(unique, nms, cfs) ==
    LET cidx == ClassIndices(unique, nms)
        unique_indices == DropDuplicates([k \in 1..Len(cidx) |-> cfs[cidx[k]]])
    IN  [u \in 1..Len(unique_indices) |-> cidx[unique_indices[u]]]

\* lines 38-49: one block per class, in the order classes are enumerated
RECURSIVE StackClasses(_, _, _, _)
StackClasses(classes, k, nms, cfs) ==
    IF k > Len(classes)
    THEN <<>>
    ELSE UniqueOfClass(classes[k], nms, cfs) \o StackClasses(classes, k + 1, nms, cfs)

\* line 49: np.vstack raises on an empty list
VStackRaises(classes) == Len(classes) = 0

(***************************************************************************)
(* process_meshes                                                          *)
(***************************************************************************)
GeometryOf(morph_name) ==
    object_dir[ObjectOfPath(morph_name \o GLOBAL_MESH_EXTENSION, GLOBAL_MESH_EXTENSION)]

\* lines 135-140: trimesh.load_mesh raises on a missing or unloadable file
LoadRaises(morph_name) == GeometryOf(morph_name).kind # "mesh"

\* a variant that repairs but does not check the mesh again
SkippedNoRecheck(mesh) == FALSE

\* lines 143-147: a mesh that is not watertight is repaired once and checked again
Skipped(mesh) == ~mesh.watertight /\ ~mesh.repairable

\* line 149: the exported file
ExportPath(morph_name) == SplitHead(morph_name, GLOBAL_MESH_EXTENSION) \o STL_EXTENSION

\* line 164: np.clip of one value
Clip(x) == IF x < CLIP_MIN THEN CLIP_MIN ELSE IF x > CLIP_MAX THEN CLIP_MAX ELSE x

\* lines 160-161: inertia /= density; inertia *= GLOBAL_DENSITY
Rescale(x, density) == (x \div density) * GLOBAL_DENSITY

\* a variant that clamps before it rescales
FormatInertiaClipFirst(inertia, density) ==
    [r \in 1..3 |-> [c \in 1..3 |-> Rescale(Clip(inertia[r][c]), density)]]

\* lines 160-164 on a 3x3 inertia
FormatInertia(inertia, density) ==
    [r \in 1..3 |-> [c \in 1..3 |-> Clip(Rescale(inertia[r][c], density))]]

\* ndarray.flatten of a 3x3 array, row-major
Flatten(m) == m[1] \o m[2] \o m[3]

\* lines 165-168: name, mass, center of mass and inertia of one mesh
ProcessedRow(morph_name) ==
    LET mesh_properties == MassSamples[GeometryOf(morph_name).sample]
    IN  <<morph_name, GLOBAL_MASS>> \o mesh_properties.center_mass
        \o Flatten(FormatInertia(mesh_properties.inertia, mesh_properties.density))

(***************************************************************************)
(* The pipeline                                                            *)
(***************************************************************************)
Init ==
    /\ object_dir \in [ObjectNames -> GeometryFiles]
    /\ param_dir \in [ObjectNames -> ParamFiles]
    /\ Cardinality({n \in ObjectNames : HasFile(object_dir, param_dir, n)}) <= MaxObjects
    /\ pc = "start"
    /\ error = "none"
    /\ names = <<>>
    /\ coeffs = <<>>
    /\ unique_idx = <<>>
    /\ morph_names = <<>>
    /\ i = 1
    /\ processed = <<>>
    /\ good_mesh_cnt = 0
    /\ exported = {}
    /\ objects_txt = <<>>
    /\ reported = -1
    /\ run = 1
    /\ first_table = <<>>

\* line 117: merge_parameter_files returns, or read_csv raises out of it
MergeParameterFiles ==
    /\ pc = "start"
    /\ \E morph_files \in Orders(MorphFiles) :
         LET r == MergeParameterFilesIn(morph_files)
         IN  IF r.raised
             THEN /\ pc' = "crashed"
                  /\ error' = "read_csv"
                  /\ UNCHANGED <<names, coeffs>>
             ELSE /\ pc' = "merged"
                  /\ names' = r.names
                  /\ coeffs' = r.coeffs
                  /\ UNCHANGED error
    /\ UNCHANGED <<object_dir, param_dir, unique_idx, morph_names, i, processed,
                   good_mesh_cnt, exported, objects_txt, reported, run, first_table>>

\* lines 120-127: get_unique_objects returns and the names are filtered, or
\* np.vstack raises out of it
GetUniqueObjects ==
    /\ pc = "merged"
    /\ \E classes \in Orders(Classes(names)) :
         IF VStackRaises(classes)
         THEN /\ pc' = "crashed"
              /\ error' = "vstack"
              /\ UNCHANGED <<unique_idx, morph_names, i, processed, good_mesh_cnt>>
         ELSE LET idx == StackClasses(classes, 1, names, coeffs)
              IN  /\ unique_idx' = idx
                  /\ morph_names' = [k \in 1..Len(idx) |-> names[idx[k]]]
                  /\ processed' = ZeroRows(Len(idx), 14)
                  /\ good_mesh_cnt' = 0
                  /\ i' = 1
                  /\ pc' = "loop"
                  /\ UNCHANGED error
    /\ UNCHANGED <<object_dir, param_dir, names, coeffs, exported, objects_txt,
                   reported, run, first_table>>

\* lines 135-140: the mesh cannot be loaded; the loop goes on
LoadFails ==
    /\ pc = "loop"
    /\ i <= Len(morph_names)
    /\ LoadRaises(morph_names[i])
    /\ i' = i + 1
    /\ UNCHANGED <<object_dir, param_dir, pc, error, names, coeffs, unique_idx,
                   morph_names, processed, good_mesh_cnt, exported, objects_txt,
                   reported, run, first_table>>

\* lines 143-147: the mesh cannot be made watertight; the loop goes on
NotWatertight ==
    /\ pc = "loop"
    /\ i <= Len(morph_names)
    /\ ~LoadRaises(morph_names[i])
    /\ Skipped(GeometryOf(morph_names[i]))
    /\ i' = i + 1
    /\ UNCHANGED <<object_dir, param_dir, pc, error, names, coeffs, unique_idx,
                   morph_names, processed, good_mesh_cnt, exported, objects_txt,
                   reported, run, first_table>>

\* lines 149-173: the mesh is exported and its row recorded
ProcessMesh ==
    /\ pc = "loop"
    /\ i <= Len(morph_names)
    /\ ~LoadRaises(morph_names[i])
    /\ ~Skipped(GeometryOf(morph_names[i]))
    /\ exported' = exported \cup {ExportPath(morph_names[i])}
    /\ processed' = [processed EXCEPT ![good_mesh_cnt + 1] = ProcessedRow(morph_names[i])]
    /\ good_mesh_cnt' = good_mesh_cnt + 1
    /\ i' = i + 1
    /\ UNCHANGED <<object_dir, param_dir, pc, error, names, coeffs, unique_idx,
                   morph_names, objects_txt, reported, run, first_table>>

\* lines 175-183: the count is printed and objects.txt written anew
WriteSummary ==
    /\ pc = "loop"
    /\ i > Len(morph_names)
    /\ reported' = good_mesh_cnt
    /\ objects_txt' = SubSeq(processed, 1, good_mesh_cnt)
    /\ pc' = "done"
    /\ UNCHANGED <<object_dir, param_dir, error, names, coeffs, unique_idx,
                   morph_names, i, processed, good_mesh_cnt, exported, run, first_table>>

\* line 186: the script is run again on the same input directories
Rerun ==
    /\ pc = "done"
    /\ run = 1
    /\ run' = 2
    /\ first_table' = objects_txt
    /\ pc' = "start"
    /\ names' = <<>>
    /\ coeffs' = <<>>
    /\ unique_idx' = <<>>
    /\ morph_names' = <<>>
    /\ i' = 1
    /\ processed' = <<>>
    /\ good_mesh_cnt' = 0
    /\ reported' = -1
    /\ UNCHANGED <<object_dir, param_dir, error, exported, objects_txt>>

Next ==
    \/ MergeParameterFiles
    \/ GetUniqueObjects
    \/ LoadFails
    \/ NotWatertight
    \/ ProcessMesh
    \/ WriteSummary

Spec == Init /\ [][Next]_vars

\* the pipeline, run a second time on the unchanged input directories
NextRerun ==
    \/ Next
    \/ Rerun

SpecRerun == Init /\ [][NextRerun]_vars

(***************************************************************************)
(* Properties                                                              *)
(***************************************************************************)
\* the transform coefficients in an object's parameter file
CoeffsOfObject(n) == SubSeq(param_dir[n].fields, 1, 5)
\* both input files of an object are present
HasBoth(n) == object_dir[n].kind # "absent" /\ param_dir[n].kind # "absent"
\* the object's mesh loads and is watertight as loaded or after the repair
MeshUsable(n) ==
    /\ object_dir[n].kind = "mesh"
    /\ (object_dir[n].watertight \/ object_dir[n].repairable)
\* the indices of names whose own class prefix is c
MembersOf(c) == {k \in 1..Len(names) : ClassOf(names[k]) = c}
\* the positions of unique_idx that hold index k
PositionsOf(k) == {u \in 1..Len(unique_idx) : unique_idx[u] = k}
Deduplicated == pc \in {"loop", "done"}

\* C1: the summary never holds two rows of the same class with identical
\* transform coefficients
C1_DeduplicationLaw ==
    \A a, b \in 1..Len(objects_txt) :
        a # b =>
            ~(/\ ClassOf(objects_txt[a][1]) = ClassOf(objects_txt[b][1])
              /\ CoeffsOfObject(objects_txt[a][1]) = CoeffsOfObject(objects_txt[b][1]))

\* C2: no input makes the run abort: it never ends in an uncaught exception
C2_NoFatalError == pc # "crashed"

\* C3: every object merge_parameter_files returns, and every object named by a
\* summary row or an exported file, has both its geometry file and its
\* parameter file in the input directories
C3_BothFilesPresent ==
    /\ \A k \in 1..Len(names) : HasBoth(names[k])
    /\ \A k \in 1..Len(objects_txt) : HasBoth(objects_txt[k][1])
    /\ \A n \in ObjectNames : ExportPath(n) \in exported => HasBoth(n)

C3_Witness ==
    /\ pc = "done"
    /\ Len(objects_txt) > 0
    /\ \E n \in ObjectNames :
         /\ param_dir[n].kind = "csv"
         /\ Len(param_dir[n].fields) = n_var
         /\ object_dir[n].kind = "absent"

\* C4: summary rows and exported files belong to meshes that loaded and are
\* watertight as loaded or after the one repair; an object whose mesh fails
\* yields neither, and the loop goes on: after i-1 objects the rows are exactly
\* the usable ones among them, in order
C4_OnlyWatertightProcessed ==
    /\ \A k \in 1..Len(objects_txt) : MeshUsable(objects_txt[k][1])
    /\ \A n \in ObjectNames : ExportPath(n) \in exported => MeshUsable(n)
    /\ Deduplicated =>
         /\ i <= Len(morph_names) + 1
         /\ LET usable == SelectSeq(SubSeq(morph_names, 1, i - 1), MeshUsable)
            IN  /\ good_mesh_cnt = Len(usable)
                /\ \A k \in 1..good_mesh_cnt : processed[k][1] = usable[k]
                /\ exported = {ExportPath(usable[k]) : k \in 1..Len(usable)}
    /\ pc = "done" => /\ i = Len(morph_names) + 1
                      /\ Len(objects_txt) = good_mesh_cnt
                      /\ reported = good_mesh_cnt

C4_Witness ==
    /\ pc = "done"
    /\ \E j, k \in 1..Len(morph_names) :
         /\ j < k
         /\ ~MeshUsable(morph_names[j])
         /\ object_dir[morph_names[k]].kind = "mesh"
         /\ ~object_dir[morph_names[k]].watertight
         /\ object_dir[morph_names[k]].repairable
         /\ \E r \in 1..Len(objects_txt) : objects_txt[r][1] = morph_names[k]

\* the inertia the library returned for the object of a row, flattened, and
\* its density
RawInertia(row) == Flatten(MassSamples[object_dir[row[1]].sample].inertia)
RawDensity(row) == MassSamples[object_dir[row[1]].sample].density
\* value j of that inertia at the target density, before any clamping
Rescaled(row, j) == (RawInertia(row)[j] * GLOBAL_DENSITY) \div RawDensity(row)

C6_Deterministic == (run = 2 /\ pc = "done") => objects_txt = first_table

\* the objects merge_parameter_files is to return
Mergeable == {n \in ObjectNames : /\ param_dir[n].kind = "csv"
                                  /\ Len(param_dir[n].fields) = n_var
                                  /\ object_dir[n].kind # "absent"}

C8_PartitionByPrefix ==
    Deduplicated =>
        /\ \A c \in Classes(names) :
             \A u \in 1..Len(ClassIndices(c, names)) :
                 ClassOf(names[ClassIndices(c, names)[u]]) = c
        /\ \A k \in 1..Len(names) : Cardinality(PositionsOf(k)) <= 1

\* C9: of the members of a class, exactly those with no earlier member of equal
\* coefficients are returned, in increasing order of index
C9_FirstOccurrenceKept ==
    Deduplicated =>
        \A c \in Classes(names) :
            /\ \A k \in MembersOf(c) :
                 (PositionsOf(k) # {}) <=>
                     (\A q \in MembersOf(c) : q < k => coeffs[q] # coeffs[k])
            /\ \A u, v \in 1..Len(unique_idx) :
                 (/\ u < v
                  /\ unique_idx[u] \in MembersOf(c)
                  /\ unique_idx[v] \in MembersOf(c)) => unique_idx[u] < unique_idx[v]

\* C10: a class whose members all have the same coefficients keeps exactly one
\* record
C10_IdenticalClassCollapses ==
    Deduplicated =>
        \A c \in Classes(names) :
            (\A p, q \in MembersOf(c) : coeffs[p] = coeffs[q]) =>
                Cardinality({u \in 1..Len(unique_idx) : unique_idx[u] \in MembersOf(c)}) = 1

====
